---- MODULE Spec2Model ----
(***************************************************************************)
(* Model of the PC machine layer of rustic (src/rustic/mach/pc/mod.rs) and *)
(* of the architecture state that owns it (src/rustic/arch/mod.rs).        *)
(*                                                                         *)
(* The kernel runs on one core.  Normal-context code is a single thread of *)
(* control whose position is pc; an interrupt handler preempts it at any   *)
(* instruction boundary while the CPU interrupt flag is set and runs to    *)
(* completion.  Every statement of a machine operation is one action.      *)
(***************************************************************************)
EXTENDS Integers, Sequences, FiniteSets, TLC

\* ------------------------------------------------------------------ bounds
MaxHandlers == 2      \* timer handlers registered at most
MaxIrqs == 1          \* interrupts one boxed device handles at most
MaxInits == 2         \* calls of initialise() at most
MaxIoOps == 3         \* raw I/O operations at most

\* ------------------------------------------------------- program constants
SerialBaud == 115200
SerialDataBits == 8
SerialStopBits == 1
PitHz == 100
InitialCapacity == 16
PitIrqNum == 0
KbIrqNum == 1

\* ------------------------------------------------------------ input domains
Lines == {PitIrqNum, KbIrqNum}           \* interrupt lines exercised
ExtHandlers == {"h1", "h2"}              \* handler objects owned by callers
Fn == {"A", "B"}                         \* tick callbacks (extern "Rust" fn(uint))
Ticks == {16, 17}                        \* elapsed-ms arguments of timer_fired
LedStates == {1}                         \* arguments of kb_leds

VARIABLES
    initialised,     \* ArchitectureState.initialised
    irq_ctlr,        \* State.irq_ctlr : [table, enabled]
    timer,           \* State.timer (held by value)
    keyboard,        \* State.keyboard (held by value)
    screen,          \* State.screen
    serial,          \* serial line configuration
    timer_handlers,  \* State.timer_handlers
    timer_cap,       \* capacity of the buffer behind timer_handlers
    regs,            \* arguments of the register_timer calls so far, in call order
    timer_irq,       \* the Rc<RefCell<Box<IrqHandler>>> made from the timer
    keyboard_irq,    \* the Rc<RefCell<Box<IrqHandler>>> made from the keyboard
    interrupts,      \* CPU interrupt-enable flag
    pc,              \* position of normal-context code
    ret_to,          \* where register_irq returns to
    irq_args,        \* arguments of the register_irq call in progress
    ret_val,         \* value returned by the last initialise()
    failed,          \* bring-up steps the hardware failed in this initialise()
    init_log,        \* steps executed by this initialise(), in order
    inits,           \* number of initialise() calls so far
    tf,              \* timer_fired frame: [ms, i, calls]
    kb_arg,          \* argument of the kb_leds call in progress
    irq_ctx,         \* <<>> or <<table entry>> of the handler now running
    drv,             \* <<>> or <<h>>: the driver owning h holds it mutably borrowed
    last_reg,        \* per line, the handler of the latest register_irq on irq_ctlr
    ports,           \* simulated I/O space, one byte per port number
    mem,             \* simulated memory, one byte per address
    io_ret,          \* what the last inport / mmio_read returned
    shadow,          \* per location and width, the value last written there
                     \* and not overwritten since (-1: none)
    io_ops           \* number of raw I/O operations so far

vars == <<initialised, irq_ctlr, timer, keyboard, screen, serial, timer_handlers,
          timer_cap, regs,
          timer_irq, keyboard_irq, interrupts, pc, ret_to, irq_args, ret_val,
          failed, init_log, inits, tf, kb_arg, irq_ctx, drv, last_reg,
          ports, mem, io_ret, shadow, io_ops>>

io == <<ports, mem, io_ret, shadow, io_ops>>
machine == <<irq_ctlr, timer, keyboard, screen, serial, timer_irq, keyboard_irq>>
callvars == <<ret_to, irq_args, ret_val, failed, init_log, inits, kb_arg>>

\* ------------------------------------------------------------ device models
\* Interrupt controller: a dispatch table of entries and the set of enabled
\* lines.  new() and init() both give an empty table with every line masked.
PicNew == [table |-> {}, enabled |-> {}]
PicInit == [table |-> {}, enabled |-> {}]

PicRegister(ctlr, irq, f, level) ==
    [ctlr EXCEPT !.table = {e \in @ : e.irq # irq}
                           \cup {[irq |-> irq, handler |-> f, level |-> level]}]

PicEnable(ctlr, irq) == [ctlr EXCEPT !.enabled = @ \cup {irq}]

PicLookup(ctlr, irq) == {e \in ctlr.table : e.irq = irq}

PitNew == [hz |-> 0]
PitInit(hz) == [hz |-> hz]

KbNew == [leds |-> 0, irqs |-> 0]
KbInit == [leds |-> 0, irqs |-> 0]
KbLedsOn(kb, state) == [kb EXCEPT !.leds = state]

\* What each device's IrqHandler::trap does to the object it is invoked on:
\* the timer object keeps no count of its own, the keyboard object does.
PitTrap(pit) == pit
KbTrap(kb) == [kb EXCEPT !.irqs = @ + 1]

VgaNew == [up |-> FALSE]
VgaInit(v) == [v EXCEPT !.up = TRUE]

NoSerial == [baud |-> 0, bits |-> 0, parity |-> "NoParity", stop |-> 0]
SerialConfig(baud, bits, parity, stop) ==
    [baud |-> baud, bits |-> bits, parity |-> parity, stop |-> stop]

\* `box v`: a new heap cell holding a copy of the value v.
Box(v) == <<v>>
NoBox == <<>>

NoFrame == [ms |-> 0, i |-> 0, calls |-> <<>>]
NoArgs == [irq |-> 0, f |-> "none", level |-> FALSE]

\* ----------------------------------------------------------------- raw I/O
\* The fixed widths T of the I/O instructions, in bytes: u8, u16, u32.
Widths == {1, 2, 4}
Addrs == {0, 1}
Cells == {0, 1, 2, 3, 4}
Spaces == {"port", "mem"}

\* Values of a w-byte T exercised, all bytes different from each other:
\* 0x..04030201 and 0x..7C7D7E7F cut to w bytes.  Every byte stays below 0x80
\* so that a 4-byte load fits TLC's signed 32-bit integers.
LowVal(w) == CASE w = 1 -> 1 [] w = 2 -> 513 [] w = 4 -> 67305985
HighVal(w) == CASE w = 1 -> 127 [] w = 2 -> 32383 [] w = 4 -> 2088599167
Vals(w) == {LowVal(w), HighVal(w)}

\* Byte k (0 = least significant) of v.
ByteOf(v, k) == (v \div (256 ^ k)) % 256

\* A w-byte little-endian store of v at a, and the matching load.
Store(space, a, w, v) ==
    [c \in Cells |-> IF c >= a /\ c < a + w THEN ByteOf(v, c - a) ELSE space[c]]

RECURSIVE Load(_, _, _)
Load(space, a, w) ==
    IF w = 0 THEN 0 ELSE space[a] + 256 * Load(space, a + 1, w - 1)

\* Mutant: `in` moves the low byte only (al), whatever the width of T.
PortInLowByte(space, port, w) == space[port]

\* Lines 102-106: `out` moves the w bytes of val to port.
PortOut(space, port, w, val) == Store(space, port, w, val)

\* Lines 108-114: `in` moves w bytes from port into val.
PortIn(space, port, w) == Load(space, port, w)

\* Lines 118-121: ptr::write(address as *mut T, val).
PtrWrite(space, address, w, val) == Store(space, address, w, val)

\* Lines 123-126: ptr::read(address as *const T).
PtrRead(space, address, w) == Load(space, address, w)

Locs == Spaces \X Addrs \X Widths
NoRet == [space |-> "none", a |-> 0, w |-> 0, val |-> 0]

\* The record of writes after a w-byte write of v at a of space sp: every
\* location the write overlaps is forgotten, the written one remembered.
Written(sp, a, w, v) ==
    [l \in Locs |->
        IF l = <<sp, a, w>> THEN v
        ELSE IF l[1] = sp /\ l[2] < a + w /\ a < l[2] + l[3] THEN -1
        ELSE shadow[l]]

\* ------------------------------------------------------------------- Init
\* ArchitectureState::new with State::new, the timer registry left aside.
Boot ==
    /\ initialised = FALSE
    /\ timer_cap = InitialCapacity
    /\ irq_ctlr = PicNew
    /\ timer = PitNew
    /\ keyboard = KbNew
    /\ screen = VgaNew
    /\ serial = NoSerial
    /\ timer_irq = NoBox
    /\ keyboard_irq = NoBox
    /\ interrupts = FALSE
    /\ pc = "idle"
    /\ ret_to = "idle"
    /\ irq_args = NoArgs
    /\ ret_val = FALSE
    /\ failed = {}
    /\ init_log = <<>>
    /\ inits = 0
    /\ tf = NoFrame
    /\ kb_arg = 0
    /\ irq_ctx = <<>>
    /\ drv = <<>>
    /\ last_reg = [l \in Lines |-> "none"]
    /\ ports = [c \in Cells |-> 0]
    /\ mem = [c \in Cells |-> 0]
    /\ io_ret = NoRet
    /\ shadow = [l \in Locs |-> -1]
    /\ io_ops = 0

\* A freshly created ArchitectureState: Vec::with_capacity(16) is empty.
Init ==
    /\ Boot
    /\ timer_handlers = <<>>
    /\ regs = <<>>

\* The machine one register_timer("A") short of its registry's initial
\* capacity, nothing else done yet.
Filled == [k \in 1..(InitialCapacity - 1) |-> "A"]

InitGrow ==
    /\ Boot
    /\ timer_handlers = Filled
    /\ regs = Filled

\* Normal-context code runs only while no interrupt handler is running.
Normal(at) == pc = at /\ irq_ctx = <<>>

\* The hardware's answer to one bring-up step; the code never reads it.
Outcome(step, ok) == IF ok THEN failed ELSE failed \cup {step}

\* ------------------------------------------------------------ initialise()
\* Mutant: initialise() clears the initialised flag before it starts over.
InitSerialClearsFlag ==
    /\ Normal("idle")
    /\ inits < MaxInits
    /\ inits' = inits + 1
    /\ initialised' = FALSE
    /\ serial' = SerialConfig(SerialBaud, SerialDataBits, "NoParity", SerialStopBits)
    /\ \E ok \in BOOLEAN : failed' = (IF ok THEN {} ELSE {"serial"})
    /\ init_log' = << <<"serial", serial'.baud>> >>
    /\ pc' = "init_pic"
    /\ UNCHANGED io
    /\ UNCHANGED <<irq_ctlr, timer, keyboard, screen, timer_handlers, timer_cap, regs,
                   timer_irq, keyboard_irq, interrupts, ret_to, irq_args, ret_val,
                   tf, kb_arg, irq_ctx, drv, last_reg>>

\* Line 51: self.serial_config(115200, 8, parity::NoParity, 1), result dropped.
InitSerial ==
    /\ Normal("idle")
    /\ inits < MaxInits
    /\ inits' = inits + 1
    /\ serial' = SerialConfig(SerialBaud, SerialDataBits, "NoParity", SerialStopBits)
    /\ \E ok \in BOOLEAN : failed' = (IF ok THEN {} ELSE {"serial"})
    /\ init_log' = << <<"serial", serial'.baud>> >>
    /\ pc' = "init_pic"
    /\ UNCHANGED io
    /\ UNCHANGED <<initialised, irq_ctlr, timer, keyboard, screen, timer_handlers, timer_cap, regs,
                   timer_irq, keyboard_irq, interrupts, ret_to, irq_args, ret_val,
                   tf, kb_arg, irq_ctx, drv, last_reg>>

\* Line 54: self.state.irq_ctlr = pic::Pic::init().  The old controller is
\* dropped, and with its table the last references to the boxed handlers.
InitPic ==
    /\ Normal("init_pic")
    /\ irq_ctlr' = PicInit
    /\ last_reg' = [l \in Lines |-> "none"]
    /\ timer_irq' = NoBox
    /\ keyboard_irq' = NoBox
    /\ \E ok \in BOOLEAN : failed' = Outcome("pic", ok)
    /\ init_log' = Append(init_log, <<"pic", 0>>)
    /\ pc' = "init_pit"
    /\ UNCHANGED io
    /\ UNCHANGED <<initialised, timer, keyboard, screen, serial, timer_handlers, timer_cap, regs,
                   interrupts, ret_to, irq_args, ret_val, inits, tf, kb_arg,
                   irq_ctx, drv>>

\* Line 57: self.state.timer = pit::Pit::init(100).
InitPit ==
    /\ Normal("init_pit")
    /\ timer' = PitInit(PitHz)
    /\ \E ok \in BOOLEAN : failed' = Outcome("pit", ok)
    /\ init_log' = Append(init_log, <<"pit", timer'.hz>>)
    /\ pc' = "init_kb"
    /\ UNCHANGED io
    /\ UNCHANGED <<initialised, irq_ctlr, keyboard, screen, serial, timer_handlers, timer_cap, regs,
                   timer_irq, keyboard_irq, interrupts, ret_to, irq_args, ret_val,
                   inits, tf, kb_arg, irq_ctx, drv, last_reg>>

\* Line 60: self.state.keyboard = kb::PS2Keyboard::init().
InitKb ==
    /\ Normal("init_kb")
    /\ keyboard' = KbInit
    /\ \E ok \in BOOLEAN : failed' = Outcome("kb", ok)
    /\ init_log' = Append(init_log, <<"kb", 0>>)
    /\ pc' = "init_box"
    /\ UNCHANGED io
    /\ UNCHANGED <<initialised, irq_ctlr, timer, screen, serial, timer_handlers, timer_cap, regs,
                   timer_irq, keyboard_irq, interrupts, ret_to, irq_args, ret_val,
                   inits, tf, kb_arg, irq_ctx, drv, last_reg>>

\* Lines 63-64: `box self.state.timer` and `box self.state.keyboard` put the
\* VALUE of each field into a new heap cell; the fields stay where they are.
InitBox ==
    /\ Normal("init_box")
    /\ timer_irq' = Box(timer)
    /\ keyboard_irq' = Box(keyboard)
    /\ pc' = "init_reg_timer"
    /\ UNCHANGED io
    /\ UNCHANGED <<initialised, irq_ctlr, timer, keyboard, screen, serial,
                   timer_handlers, timer_cap, regs, interrupts, ret_to, irq_args, ret_val, failed,
                   init_log, inits, tf, kb_arg, irq_ctx, drv, last_reg>>

\* Mutant: the timer is registered on the keyboard's line.
InitRegTimerWrongLine ==
    /\ Normal("init_reg_timer")
    /\ irq_args' = [irq |-> KbIrqNum, f |-> "timer_irq", level |-> TRUE]
    /\ ret_to' = "init_reg_kb"
    /\ pc' = "irq_register"
    /\ UNCHANGED io
    /\ UNCHANGED <<initialised, machine, timer_handlers, timer_cap, regs, interrupts, ret_val, failed,
                   init_log, inits, tf, kb_arg, irq_ctx, drv, last_reg>>

\* Line 65: self.register_irq(pit::Pit::irq_num(), timer_irq, true).
InitRegTimer ==
    /\ Normal("init_reg_timer")
    /\ irq_args' = [irq |-> PitIrqNum, f |-> "timer_irq", level |-> TRUE]
    /\ ret_to' = "init_reg_kb"
    /\ pc' = "irq_register"
    /\ UNCHANGED io
    /\ UNCHANGED <<initialised, machine, timer_handlers, timer_cap, regs, interrupts, ret_val, failed,
                   init_log, inits, tf, kb_arg, irq_ctx, drv, last_reg>>

\* Mutant: the keyboard line is requested edge-triggered.
InitRegKbEdge ==
    /\ Normal("init_reg_kb")
    /\ irq_args' = [irq |-> KbIrqNum, f |-> "keyboard_irq", level |-> FALSE]
    /\ ret_to' = "init_vga"
    /\ pc' = "irq_register"
    /\ UNCHANGED io
    /\ UNCHANGED <<initialised, machine, timer_handlers, timer_cap, regs, interrupts, ret_val, failed,
                   init_log, inits, tf, kb_arg, irq_ctx, drv, last_reg>>

\* Line 66: self.register_irq(kb::PS2Keyboard::irq_num(), keyboard_irq, true).
InitRegKb ==
    /\ Normal("init_reg_kb")
    /\ irq_args' = [irq |-> KbIrqNum, f |-> "keyboard_irq", level |-> TRUE]
    /\ ret_to' = "init_vga"
    /\ pc' = "irq_register"
    /\ UNCHANGED io
    /\ UNCHANGED <<initialised, machine, timer_handlers, timer_cap, regs, interrupts, ret_val, failed,
                   init_log, inits, tf, kb_arg, irq_ctx, drv, last_reg>>

\* Line 69: self.state.screen.init(), result dropped.
InitVga ==
    /\ Normal("init_vga")
    /\ screen' = VgaInit(screen)
    /\ \E ok \in BOOLEAN : failed' = Outcome("vga", ok)
    /\ init_log' = Append(init_log, <<"vga", 0>>)
    /\ pc' = "init_mark"
    /\ UNCHANGED io
    /\ UNCHANGED <<initialised, irq_ctlr, timer, keyboard, serial, timer_handlers, timer_cap, regs,
                   timer_irq, keyboard_irq, interrupts, ret_to, irq_args, ret_val,
                   inits, tf, kb_arg, irq_ctx, drv, last_reg>>

\* Lines 71-73: self.initialised = true; the value returned is self.initialised.
InitMark ==
    /\ Normal("init_mark")
    /\ initialised' = TRUE
    /\ ret_val' = initialised'
    /\ init_log' = Append(init_log, <<"mark", 0>>)
    /\ pc' = "init_return"
    /\ UNCHANGED io
    /\ UNCHANGED <<machine, timer_handlers, timer_cap, regs, interrupts, ret_to, irq_args, failed,
                   inits, tf, kb_arg, irq_ctx, drv, last_reg>>

\* Line 74: initialise() returns to its caller.
InitReturn ==
    /\ Normal("init_return")
    /\ pc' = "idle"
    /\ failed' = {}
    /\ init_log' = <<>>
    /\ UNCHANGED io
    /\ UNCHANGED <<initialised, machine, timer_handlers, timer_cap, regs, interrupts, ret_to, irq_args,
                   ret_val, inits, tf, kb_arg, irq_ctx, drv, last_reg>>

\* ---------------------------------------------------------- register_irq()
\* Line 76: a caller outside initialise() enters register_irq.
RegisterIrq ==
    /\ Normal("idle")
    /\ \E irq \in Lines, f \in ExtHandlers, level \in BOOLEAN :
           irq_args' = [irq |-> irq, f |-> f, level |-> level]
    /\ ret_to' = "idle"
    /\ pc' = "irq_register"
    /\ UNCHANGED io
    /\ UNCHANGED <<initialised, machine, timer_handlers, timer_cap, regs, interrupts, ret_val, failed,
                   init_log, inits, tf, kb_arg, irq_ctx, drv, last_reg>>

\* The log of initialise() records the steps register_irq takes on its behalf.
Logged(step) ==
    IF ret_to = "idle" THEN init_log ELSE Append(init_log, <<step, irq_args.irq>>)

\* Mutant: the handler is never put into the table.
IrqRegisterStepOmitted ==
    /\ Normal("irq_register")
    /\ last_reg' = [last_reg EXCEPT ![irq_args.irq] = irq_args.f]
    /\ init_log' = Logged("register")
    /\ pc' = "irq_enable"
    /\ UNCHANGED io
    /\ UNCHANGED <<initialised, machine, timer_handlers, timer_cap, regs, interrupts, ret_to, irq_args,
                   ret_val, failed, inits, tf, kb_arg, irq_ctx, drv>>

\* Mutant: a line that already has a handler keeps it.
IrqRegisterStepKeepFirst ==
    /\ Normal("irq_register")
    /\ irq_ctlr' = IF PicLookup(irq_ctlr, irq_args.irq) = {}
                   THEN PicRegister(irq_ctlr, irq_args.irq, irq_args.f, irq_args.level)
                   ELSE irq_ctlr
    /\ last_reg' = [last_reg EXCEPT ![irq_args.irq] = irq_args.f]
    /\ init_log' = Logged("register")
    /\ pc' = "irq_enable"
    /\ UNCHANGED io
    /\ UNCHANGED <<initialised, timer, keyboard, screen, serial, timer_handlers, timer_cap, regs,
                   timer_irq, keyboard_irq, interrupts, ret_to, irq_args, ret_val,
                   failed, inits, tf, kb_arg, irq_ctx, drv>>

\* Line 77: self.state.irq_ctlr.register(irq, f, level_trigger).
IrqRegisterStep ==
    /\ Normal("irq_register")
    /\ irq_ctlr' = PicRegister(irq_ctlr, irq_args.irq, irq_args.f, irq_args.level)
    /\ last_reg' = [last_reg EXCEPT ![irq_args.irq] = irq_args.f]
    /\ init_log' = Logged("register")
    /\ pc' = "irq_enable"
    /\ UNCHANGED io
    /\ UNCHANGED <<initialised, timer, keyboard, screen, serial, timer_handlers, timer_cap, regs,
                   timer_irq, keyboard_irq, interrupts, ret_to, irq_args, ret_val,
                   failed, inits, tf, kb_arg, irq_ctx, drv>>

\* Mutant: the enable goes to the line next to the registered one.
IrqEnableStepOtherLine ==
    /\ Normal("irq_enable")
    /\ irq_ctlr' = PicEnable(irq_ctlr, (irq_args.irq + 1) % 2)
    /\ init_log' = Logged("enable")
    /\ pc' = "irq_return"
    /\ UNCHANGED io
    /\ UNCHANGED <<initialised, timer, keyboard, screen, serial, timer_handlers, timer_cap, regs,
                   timer_irq, keyboard_irq, interrupts, ret_to, irq_args, ret_val,
                   failed, inits, tf, kb_arg, irq_ctx, drv, last_reg>>

\* Mutant: the line is registered but never enabled.
IrqEnableStepOmitted ==
    /\ Normal("irq_enable")
    /\ init_log' = Logged("enable")
    /\ pc' = "irq_return"
    /\ UNCHANGED io
    /\ UNCHANGED <<initialised, machine, timer_handlers, timer_cap, regs, interrupts, ret_to, irq_args,
                   ret_val, failed, inits, tf, kb_arg, irq_ctx, drv, last_reg>>

\* Line 78: self.state.irq_ctlr.enable(irq).
IrqEnableStep ==
    /\ Normal("irq_enable")
    /\ irq_ctlr' = PicEnable(irq_ctlr, irq_args.irq)
    /\ init_log' = Logged("enable")
    /\ pc' = "irq_return"
    /\ UNCHANGED io
    /\ UNCHANGED <<initialised, timer, keyboard, screen, serial, timer_handlers, timer_cap, regs,
                   timer_irq, keyboard_irq, interrupts, ret_to, irq_args, ret_val,
                   failed, inits, tf, kb_arg, irq_ctx, drv, last_reg>>

\* Line 79: register_irq returns to its caller.
IrqReturn ==
    /\ Normal("irq_return")
    /\ pc' = ret_to
    /\ ret_to' = "idle"
    /\ irq_args' = NoArgs
    /\ UNCHANGED io
    /\ UNCHANGED <<initialised, machine, timer_handlers, timer_cap, regs, interrupts, ret_val,
                   failed, init_log, inits, tf, kb_arg, irq_ctx, drv, last_reg>>

\* --------------------------------------------------------- TimerHandlers
\* Registry sizes explored: MaxHandlers registrations from an empty registry,
\* and MaxHandlers registrations from one that is an entry short of full.
Explored(n) ==
    \/ n < MaxHandlers
    \/ n >= InitialCapacity - 1 /\ n < InitialCapacity - 1 + MaxHandlers

\* Vec::push: a full buffer is reallocated at twice its capacity and keeps its
\* elements; the new element goes to the end.
GrownCap(len, cap) == IF len = cap THEN 2 * (IF cap > 2 THEN cap ELSE 2) ELSE cap

\* Mutant: a full registry silently drops the registration.
RegisterTimerFixedCapacity ==
    /\ Normal("idle")
    /\ Explored(Len(regs))
    /\ \E f \in Fn :
          /\ timer_handlers' = IF Len(timer_handlers) < timer_cap
                               THEN Append(timer_handlers, f) ELSE timer_handlers
          /\ regs' = Append(regs, f)
    /\ UNCHANGED io
    /\ UNCHANGED <<initialised, machine, timer_cap, interrupts, pc, callvars, tf,
                   irq_ctx, drv, last_reg>>

\* Mutant: a function that is already registered is not registered again.
RegisterTimerDedup ==
    /\ Normal("idle")
    /\ Explored(Len(regs))
    /\ \E f \in Fn :
          /\ timer_handlers' = IF \E k \in DOMAIN timer_handlers : timer_handlers[k] = f
                               THEN timer_handlers ELSE Append(timer_handlers, f)
          /\ regs' = Append(regs, f)
    /\ UNCHANGED io
    /\ UNCHANGED <<initialised, machine, timer_cap, interrupts, pc, callvars, tf,
                   irq_ctx, drv, last_reg>>

\* Lines 83-85: self.state.timer_handlers.push(f).
RegisterTimer ==
    /\ Normal("idle")
    /\ Explored(Len(regs))
    /\ \E f \in Fn :
          /\ timer_handlers' = Append(timer_handlers, f)
          /\ regs' = Append(regs, f)
    /\ timer_cap' = GrownCap(Len(timer_handlers), timer_cap)
    /\ UNCHANGED io
    /\ UNCHANGED <<initialised, machine, interrupts, pc, callvars, tf, irq_ctx, drv,
                   last_reg>>

\* Lines 87-88: timer_fired(ms) is entered and the iterator is created.
TimerFired ==
    /\ Normal("idle")
    /\ \E ms \in Ticks : tf' = [ms |-> ms, i |-> 1, calls |-> <<>>]
    /\ pc' = "tf_loop"
    /\ UNCHANGED io
    /\ UNCHANGED <<initialised, machine, timer_handlers, timer_cap, regs, interrupts, callvars,
                   irq_ctx, drv, last_reg>>

\* Lines 88-90: the iterator yields entry i; handler = *h; handler(ms) is called.
TfCall ==
    /\ Normal("tf_loop")
    /\ tf.i <= Len(timer_handlers)
    /\ tf' = [tf EXCEPT !.calls = Append(@, <<timer_handlers[tf.i], tf.ms>>)]
    /\ pc' = "tf_handler"
    /\ UNCHANGED io
    /\ UNCHANGED <<initialised, machine, timer_handlers, timer_cap, regs, interrupts, callvars,
                   irq_ctx, drv, last_reg>>

\* Mutant: the iterator advances by two and skips every other handler.
TfHandlerReturnSkip ==
    /\ Normal("tf_handler")
    /\ tf' = [tf EXCEPT !.i = @ + 2]
    /\ pc' = "tf_loop"
    /\ UNCHANGED io
    /\ UNCHANGED <<initialised, machine, timer_handlers, timer_cap, regs, interrupts, callvars,
                   irq_ctx, drv, last_reg>>

\* Lines 90-91: handler(ms) returns and the iterator advances.
TfHandlerReturn ==
    /\ Normal("tf_handler")
    /\ tf' = [tf EXCEPT !.i = @ + 1]
    /\ pc' = "tf_loop"
    /\ UNCHANGED io
    /\ UNCHANGED <<initialised, machine, timer_handlers, timer_cap, regs, interrupts, callvars,
                   irq_ctx, drv, last_reg>>

\* Mutant: the loop ends once the first handler has returned.
TfExitAfterFirst ==
    /\ Normal("tf_loop")
    /\ tf.i > 1
    /\ pc' = "tf_return"
    /\ UNCHANGED io
    /\ UNCHANGED <<initialised, machine, timer_handlers, timer_cap, regs, interrupts,
                   callvars, tf, irq_ctx, drv, last_reg>>

\* Line 88: the iterator is exhausted and the loop ends.
TfExit ==
    /\ Normal("tf_loop")
    /\ tf.i > Len(timer_handlers)
    /\ pc' = "tf_return"
    /\ UNCHANGED io
    /\ UNCHANGED <<initialised, machine, timer_handlers, timer_cap, regs, interrupts, callvars, tf,
                   irq_ctx, drv, last_reg>>

\* Line 92: timer_fired returns to its caller.
TfReturn ==
    /\ Normal("tf_return")
    /\ tf' = NoFrame
    /\ pc' = "idle"
    /\ UNCHANGED io
    /\ UNCHANGED <<initialised, machine, timer_handlers, timer_cap, regs, interrupts, callvars,
                   irq_ctx, drv, last_reg>>

\* ---------------------------------------------------------------- Keyboard
\* Line 96: kb_leds(state) is entered; nothing masks interrupts.
KbLeds ==
    /\ Normal("idle")
    /\ \E state \in LedStates : kb_arg' = state
    /\ pc' = "kb_leds"
    /\ UNCHANGED io
    /\ UNCHANGED <<initialised, machine, timer_handlers, timer_cap, regs, interrupts, ret_to, irq_args,
                   ret_val, failed, init_log, inits, tf, irq_ctx, drv, last_reg>>

\* Lines 97-98: self.state.keyboard.leds(state) completes and kb_leds returns.
KbLedsDone ==
    /\ Normal("kb_leds")
    /\ keyboard' = KbLedsOn(keyboard, kb_arg)
    /\ kb_arg' = 0
    /\ pc' = "idle"
    /\ UNCHANGED io
    /\ UNCHANGED <<initialised, irq_ctlr, timer, screen, serial, timer_handlers, timer_cap, regs,
                   timer_irq, keyboard_irq, interrupts, ret_to, irq_args, ret_val,
                   failed, init_log, inits, tf, irq_ctx, drv, last_reg>>

\* ------------------------------------------------------------ Architecture
\* Architecture::set_interrupts(b), called by normal-context code between
\* machine operations.
SetInterrupts ==
    /\ Normal("idle")
    /\ \E b \in BOOLEAN : interrupts' = b
    /\ UNCHANGED io
    /\ UNCHANGED <<initialised, machine, timer_handlers, timer_cap, regs, pc, callvars, tf, irq_ctx, drv,
                   last_reg>>

\* -------------------------------------------------------- interrupt dispatch
\* The driver that owns a caller's handler object keeps a reference to its
\* cell and, in normal context, borrows it mutably for a while.
DriverBorrow ==
    /\ Normal("idle")
    /\ \E h \in ExtHandlers : drv' = <<h>>
    /\ pc' = "drv_access"
    /\ UNCHANGED io
    /\ UNCHANGED <<initialised, machine, timer_handlers, timer_cap, regs, interrupts,
                   callvars, tf, irq_ctx, last_reg>>

\* The driver's mutable borrow ends.
DriverRelease ==
    /\ Normal("drv_access")
    /\ drv' = <<>>
    /\ pc' = "idle"
    /\ UNCHANGED io
    /\ UNCHANGED <<initialised, machine, timer_handlers, timer_cap, regs, interrupts,
                   callvars, tf, irq_ctx, last_reg>>

\* RefCell::borrow_mut on the cell of handler h succeeds only while nobody
\* else has it borrowed.
CanBorrowMut(h) == drv # <<h>> /\ (irq_ctx = <<>> \/ irq_ctx[1].handler # h)

\* Mutant: the table reaches the handler through a plain shared pointer, with
\* no borrow check.
IrqDispatchUnchecked ==
    /\ interrupts
    /\ irq_ctx = <<>>
    /\ pc # "abort"
    /\ \E irq \in irq_ctlr.enabled : \E e \in PicLookup(irq_ctlr, irq) :
          /\ e.handler = "keyboard_irq" => keyboard_irq[1].irqs < MaxIrqs
          /\ irq_ctx' = <<e>>
    /\ UNCHANGED io
    /\ UNCHANGED <<initialised, machine, timer_handlers, timer_cap, regs, interrupts,
                   pc, callvars, tf, drv, last_reg>>

\* A hardware interrupt on an enabled line preempts normal-context code: the
\* controller looks the line up, borrows the registered handler mutably and
\* enters it; a failed borrow aborts the kernel.
IrqDispatch ==
    /\ interrupts
    /\ irq_ctx = <<>>
    /\ pc # "abort"
    /\ \E irq \in irq_ctlr.enabled : \E e \in PicLookup(irq_ctlr, irq) :
          /\ e.handler = "keyboard_irq" => keyboard_irq[1].irqs < MaxIrqs
          /\ IF CanBorrowMut(e.handler)
             THEN irq_ctx' = <<e>> /\ pc' = pc
             ELSE irq_ctx' = <<>> /\ pc' = "abort"
    /\ UNCHANGED io
    /\ UNCHANGED <<initialised, machine, timer_handlers, timer_cap, regs, interrupts,
                   callvars, tf, drv, last_reg>>

\* The handler's trap() acts on the object the table entry refers to, then the
\* interrupt returns.
IrqDone ==
    /\ irq_ctx # <<>>
    /\ timer_irq' = IF irq_ctx[1].handler = "timer_irq"
                    THEN Box(PitTrap(timer_irq[1])) ELSE timer_irq
    /\ keyboard_irq' = IF irq_ctx[1].handler = "keyboard_irq"
                       THEN Box(KbTrap(keyboard_irq[1])) ELSE keyboard_irq
    /\ irq_ctx' = <<>>
    /\ UNCHANGED io
    /\ UNCHANGED <<initialised, irq_ctlr, timer, keyboard, screen, serial,
                   timer_handlers, timer_cap, regs, interrupts, pc, callvars, tf, drv,
                   last_reg>>

\* ------------------------------------------------------------------ IoPort
machinevars == <<initialised, machine, timer_handlers, timer_cap, regs, interrupts, pc, callvars,
                 tf, irq_ctx, drv, last_reg>>

\* Lines 102-106: outport<T>(port, val).
Outport ==
    /\ Normal("idle")
    /\ io_ops < MaxIoOps
    /\ io_ops' = io_ops + 1
    /\ \E port \in Addrs, w \in Widths : \E val \in Vals(w) :
          /\ ports' = PortOut(ports, port, w, val)
          /\ shadow' = Written("port", port, w, val)
    /\ io_ret' = NoRet
    /\ UNCHANGED <<machinevars, mem>>

\* Lines 108-114: inport<T>(port) -> T.
Inport ==
    /\ Normal("idle")
    /\ io_ops < MaxIoOps
    /\ io_ops' = io_ops + 1
    /\ \E port \in Addrs, w \in Widths :
          io_ret' = [space |-> "port", a |-> port, w |-> w,
                     val |-> PortIn(ports, port, w)]
    /\ UNCHANGED <<machinevars, ports, mem, shadow>>

\* -------------------------------------------------------------------- Mmio
\* Lines 118-121: mmio_write<T>(address, val).
MmioWrite ==
    /\ Normal("idle")
    /\ io_ops < MaxIoOps
    /\ io_ops' = io_ops + 1
    /\ \E address \in Addrs, w \in Widths : \E val \in Vals(w) :
          /\ mem' = PtrWrite(mem, address, w, val)
          /\ shadow' = Written("mem", address, w, val)
    /\ io_ret' = NoRet
    /\ UNCHANGED <<machinevars, ports>>

\* Lines 123-126: mmio_read<T>(address) -> T.
MmioRead ==
    /\ Normal("idle")
    /\ io_ops < MaxIoOps
    /\ io_ops' = io_ops + 1
    /\ \E address \in Addrs, w \in Widths :
          io_ret' = [space |-> "mem", a |-> address, w |-> w,
                     val |-> PtrRead(mem, address, w)]
    /\ UNCHANGED <<machinevars, ports, mem, shadow>>

\* ------------------------------------------------------------ specification
Next ==
    \/ InitSerial \/ InitPic \/ InitPit \/ InitKb \/ InitBox
    \/ InitRegTimer \/ InitRegKb \/ InitVga \/ InitMark \/ InitReturn
    \/ RegisterIrq \/ IrqRegisterStep \/ IrqEnableStep \/ IrqReturn
    \/ RegisterTimer \/ TimerFired \/ TfCall \/ TfHandlerReturn \/ TfExit \/ TfReturn
    \/ KbLeds \/ KbLedsDone
    \/ SetInterrupts
    \/ DriverBorrow \/ DriverRelease
    \/ IrqDispatch \/ IrqDone

Spec == Init /\ [][Next]_vars

\* The machine operations without interrupts, started with the timer registry
\* nearly full.
NextGrow ==
    \/ InitSerial \/ InitPic \/ InitPit \/ InitKb \/ InitBox
    \/ InitRegTimer \/ InitRegKb \/ InitVga \/ InitMark \/ InitReturn
    \/ RegisterIrq \/ IrqRegisterStep \/ IrqEnableStep \/ IrqReturn
    \/ RegisterTimer \/ TimerFired \/ TfCall \/ TfHandlerReturn \/ TfExit \/ TfReturn
    \/ KbLeds \/ KbLedsDone

SpecGrow == InitGrow /\ [][NextGrow]_vars

\* The machine operations without interrupts on a fresh machine, where the CPU
\* keeps executing timer_fired's loop and every tick callback returns.
SpecTick ==
    /\ Init
    /\ [][NextGrow]_vars
    /\ WF_vars(TfCall)
    /\ WF_vars(TfHandlerReturn)
    /\ WF_vars(TfExit)

\* Every operation of the machine, with at most one raw I/O operation in a
\* behaviour.
NextFlag ==
    \/ InitSerial \/ InitPic \/ InitPit \/ InitKb \/ InitBox
    \/ InitRegTimer \/ InitRegKb \/ InitVga \/ InitMark \/ InitReturn
    \/ RegisterIrq \/ IrqRegisterStep \/ IrqEnableStep \/ IrqReturn
    \/ RegisterTimer \/ TimerFired \/ TfCall \/ TfHandlerReturn \/ TfExit \/ TfReturn
    \/ KbLeds \/ KbLedsDone
    \/ io_ops = 0 /\ Outport
    \/ io_ops = 0 /\ Inport
    \/ io_ops = 0 /\ MmioWrite
    \/ io_ops = 0 /\ MmioRead

SpecFlag == Init /\ [][NextFlag]_vars

\* The raw I/O primitives on their own, over simulated port and memory space.
NextIO == Outport \/ Inport \/ MmioWrite \/ MmioRead

SpecIO == Init /\ [][NextIO]_vars

\* ==================================================================== claims
IsPrefix(s, t) == Len(s) <= Len(t) /\ s = SubSeq(t, 1, Len(s))

InTimerFired == pc \in {"tf_loop", "tf_handler", "tf_return"}

\* The invocations one timer_fired(ms) owes to the registry as it stands.
Expected == [k \in 1..Len(timer_handlers) |-> <<timer_handlers[k], tf.ms>>]

\* C1: after any register_timer calls, one timer_fired(t) invokes every
\* registered handler exactly once, in registration order, each with t: the
\* invocations made so far are always the first ones owed, and on return they
\* are all of them.
C1_TimerFiredDelivers ==
    InTimerFired =>
        /\ IsPrefix(tf.calls, Expected)
        /\ pc = "tf_return" => tf.calls = Expected

C1_Witness ==
    /\ pc = "tf_return"
    /\ Len(timer_handlers) = 2
    /\ timer_handlers[1] # timer_handlers[2]
    /\ tf.ms = 16

\* C2: initialise() returns true iff every bring-up step succeeded, and after
\* a failed step it returns false with the timer and keyboard lines of the
\* later steps not enabled.
C2_ReturnsAggregateSuccess ==
    pc = "init_return" =>
        /\ ret_val <=> failed = {}
        /\ failed \cap {"serial", "pic", "pit", "kb"} # {} =>
               irq_ctlr.enabled \cap {PitIrqNum, KbIrqNum} = {}

\* C3: once a bring-up step has failed, initialise() executes no later step:
\* the failed step is the last one it ran.
C3_AbortsAfterFailure ==
    \A s \in failed : init_log[Len(init_log)][1] = s

\* A line's only table entry is handler f with trigger mode level.
Installed(irq, f, level) ==
    PicLookup(irq_ctlr, irq) = {[irq |-> irq, handler |-> f, level |-> level]}

\* C4: when initialise() returns on a machine whose devices all came up, it
\* returns true, the machine is marked initialised, and the timer and the
\* keyboard line each have their device registered, level-triggered, enabled.
C4_BootWiresBothLines ==
    (pc = "init_return" /\ failed = {}) =>
        /\ ret_val
        /\ initialised
        /\ Installed(PitIrqNum, "timer_irq", TRUE)
        /\ Installed(KbIrqNum, "keyboard_irq", TRUE)
        /\ {PitIrqNum, KbIrqNum} \subseteq irq_ctlr.enabled

C4_Witness ==
    /\ pc = "init_return"
    /\ failed = {}
    /\ inits = 1
    /\ Len(timer_handlers) = 2

\* C5: register_irq(line, handler, level) installs the handler with the given
\* mode and then enables the line within the same call: the handler is
\* installed before the enable step runs, and when the call returns the line
\* is both registered as asked and enabled.
C5_RegisterThenEnable ==
    /\ pc = "irq_enable" => Installed(irq_args.irq, irq_args.f, irq_args.level)
    /\ pc = "irq_return" =>
           /\ Installed(irq_args.irq, irq_args.f, irq_args.level)
           /\ irq_args.irq \in irq_ctlr.enabled

C5_Witness ==
    /\ pc = "irq_return"
    /\ ret_to = "idle"
    /\ irq_args = [irq |-> KbIrqNum, f |-> "h1", level |-> FALSE]
    /\ ~initialised

\* C6: a dispatch on a line invokes the handler of the latest register_irq for
\* that line, never an earlier one, and no line ever has two handlers.
C6_LastRegistrationWins ==
    /\ irq_ctx # <<>> => irq_ctx[1].handler = last_reg[irq_ctx[1].irq]
    /\ \A l \in Lines : Cardinality(PicLookup(irq_ctlr, l)) <= 1

\* The keyboard line was registered by initialise() and then re-registered
\* with h2, and an interrupt on it is being handled.
C6_Witness ==
    /\ irq_ctx # <<>>
    /\ irq_ctx[1].irq = KbIrqNum
    /\ irq_ctx[1].handler = "h2"
    /\ initialised
    /\ inits = 1
    /\ pc = "idle"

\* C7: after initialise() the handler registered for the timer (keyboard) line
\* is the very object the machine retains as its timer (keyboard), so both
\* always show the same state.
C7_HandlerIsRetainedDevice ==
    (pc = "idle" /\ initialised /\ timer_irq # NoBox /\ keyboard_irq # NoBox) =>
        /\ timer_irq[1] = timer
        /\ keyboard_irq[1] = keyboard

\* C8: while kb_leds is accessing the keyboard controller no keyboard
\* interrupt handler runs.
C8_KbLedsInCriticalSection ==
    pc = "kb_leds" => ~(irq_ctx # <<>> /\ irq_ctx[1].irq = KbIrqNum)

\* The order of section 4.4: both registrations, then both enables.
SpecOrder ==
    << <<"serial", SerialBaud>>, <<"pic", 0>>, <<"pit", PitHz>>, <<"kb", 0>>,
       <<"register", PitIrqNum>>, <<"register", KbIrqNum>>,
       <<"enable", PitIrqNum>>, <<"enable", KbIrqNum>>,
       <<"vga", 0>>, <<"mark", 0>> >>

\* The order of the code: each line is enabled as soon as it is registered.
CodeOrder ==
    << <<"serial", SerialBaud>>, <<"pic", 0>>, <<"pit", PitHz>>, <<"kb", 0>>,
       <<"register", PitIrqNum>>, <<"enable", PitIrqNum>>,
       <<"register", KbIrqNum>>, <<"enable", KbIrqNum>>,
       <<"vga", 0>>, <<"mark", 0>> >>

\* C9 as stated: the steps of initialise() run in the order serial, controller,
\* timer at 100 Hz, keyboard, registration of both lines, enabling of both
\* lines, display, mark.
C9_StatedOrder == IsPrefix(init_log, SpecOrder)

\* C9 as amended: the steps of initialise() run in the order serial,
\* controller, timer at 100 Hz, keyboard, register timer line, enable timer
\* line, register keyboard line, enable keyboard line, display, mark; when
\* initialise() returns all of them have run.
C9_InitOrder ==
    /\ IsPrefix(init_log, CodeOrder)
    /\ pc = "init_return" => init_log = CodeOrder

C9_Witness ==
    /\ pc = "init_return"
    /\ inits = 2
    /\ failed = {}

\* C10: on simulated port and memory space, for every width and value, a read
\* of a location returns the value last written there at that width when no
\* other write touched the location since.
C10_RoundTrip ==
    io_ret # NoRet =>
        (shadow[<<io_ret.space, io_ret.a, io_ret.w>>] # -1 =>
             io_ret.val = shadow[<<io_ret.space, io_ret.a, io_ret.w>>])

\* A 32-bit value written to port 1 is read back after a write to memory.
C10_Witness ==
    /\ io_ret = [space |-> "port", a |-> 1, w |-> 4, val |-> HighVal(4)]
    /\ shadow[<<"port", 1, 4>>] = HighVal(4)
    /\ shadow[<<"mem", 0, 2>>] = LowVal(2)

\* initialise() is past the controller bring-up and has not returned.
InInitAfterPic ==
    \/ pc \in {"init_pit", "init_kb", "init_box", "init_reg_timer", "init_reg_kb",
               "init_vga", "init_mark", "init_return"}
    \/ pc \in {"irq_register", "irq_enable", "irq_return"} /\ ret_to # "idle"

Registered(irq) == PicLookup(irq_ctlr, irq) # {}

\* C11 as stated: during initialise() both lines are registered before either
\* is enabled, so the timer line is never enabled while the keyboard line has
\* no handler.
C11_BothRegisteredBeforeEnable ==
    InInitAfterPic =>
        (irq_ctlr.enabled # {} => Registered(PitIrqNum) /\ Registered(KbIrqNum))

\* C11 as amended: during initialise() each line is registered before that
\* same line is enabled, the timer line first: an enabled line holds its own
\* device handler, level-triggered, and the keyboard line is enabled only
\* once the timer line is.
C11_EachRegisteredBeforeItsEnable ==
    InInitAfterPic =>
        /\ PitIrqNum \in irq_ctlr.enabled => Installed(PitIrqNum, "timer_irq", TRUE)
        /\ KbIrqNum \in irq_ctlr.enabled =>
               /\ Installed(KbIrqNum, "keyboard_irq", TRUE)
               /\ PitIrqNum \in irq_ctlr.enabled

\* initialise() has enabled the timer line and not yet registered the keyboard.
C11_Witness ==
    /\ InInitAfterPic
    /\ PitIrqNum \in irq_ctlr.enabled
    /\ ~Registered(KbIrqNum)
    /\ pc = "init_reg_kb"

\* C12: in every state reached through initialise() and register_irq(), a line
\* that is enabled at the controller has a registered handler.
C12_EnabledImpliesRegistered ==
    \A l \in Lines : l \in irq_ctlr.enabled => Registered(l)

\* A caller's register_irq has enabled the keyboard line on a machine that
\* was never initialised, and an interrupt on it is being handled.
C12_Witness ==
    /\ ~initialised
    /\ inits = 0
    /\ irq_ctlr.enabled = {KbIrqNum}
    /\ irq_ctx # <<>>
    /\ irq_ctx[1].handler = "h1"

\* C13: the timer registry is append-only: it always holds exactly the
\* arguments of the register_timer calls so far, in call order, within its
\* buffer's capacity, also past the initial capacity of 16; so no other
\* operation changes it.
C13_RegistryIsCallHistory ==
    /\ timer_handlers = regs
    /\ Len(timer_handlers) <= timer_cap

\* Two registrations past a 15-entry registry, then initialise(), then a
\* timer_fired that has reached the 17th entry.
C13_Witness ==
    /\ Len(timer_handlers) = InitialCapacity + 1
    /\ timer_handlers[InitialCapacity + 1] = "B"
    /\ initialised
    /\ pc = "tf_return"
    /\ Len(tf.calls) = InitialCapacity + 1

\* C14: register_timer detects no duplicates: when timer_fired returns, every
\* function has been invoked once per register_timer call that passed it, at
\* the positions of those calls.
C14_DuplicatesKept ==
    pc = "tf_return" =>
        \A f \in Fn : {k \in DOMAIN tf.calls : tf.calls[k][1] = f}
                        = {k \in DOMAIN regs : regs[k] = f}

C14_Witness ==
    /\ pc = "tf_return"
    /\ regs = <<"A", "A">>
    /\ tf.calls = << <<"A", 17>>, <<"A", 17>> >>

\* Handlers of this tick started, and handlers of this tick that returned.
Started == Len(tf.calls)
Returned == tf.i - 1

\* At most the handler last started has not returned, and timer_fired leaves
\* its loop only when as many handlers have returned as the registry holds.
Sequential ==
    InTimerFired =>
        /\ Started = (IF pc = "tf_handler" THEN Returned + 1 ELSE Returned)
        /\ Returned <= Len(timer_handlers)
        /\ pc = "tf_return" => Returned = Len(timer_handlers)

\* C15: timer_fired invokes its handlers one after the other: handler i+1 is
\* started only after handler i has returned, so a handler that never returns
\* keeps every later handler from starting and timer_fired from returning;
\* and when every handler returns, timer_fired ends after exactly as many
\* invocations as the registry has entries.
C15_SynchronousSequential ==
    /\ []Sequential
    /\ (pc \in {"tf_loop", "tf_handler"}) ~> (pc = "tf_return")

\* The second of two handlers is running, the first has returned.
C15_Witness ==
    /\ pc = "tf_handler"
    /\ Len(timer_handlers) = 2
    /\ Returned = 1
    /\ Started = 2

\* Who has mutable access to the cell of handler h: the owning driver while
\* it holds its borrow, the dispatch table while the handler runs.
Holders(h) ==
    (IF drv = <<h>> THEN {"driver"} ELSE {})
        \cup (IF irq_ctx # <<>> /\ irq_ctx[1].handler = h THEN {"table"} ELSE {})

\* C16: a shared handler cell never has two holders with mutable access at
\* once, and the kernel aborts only on an attempt to borrow a handler its
\* driver has borrowed, without entering the handler.
C16_ExclusiveMutableAccess ==
    /\ \A h \in ExtHandlers \cup {"timer_irq", "keyboard_irq"} :
           Cardinality(Holders(h)) <= 1
    /\ pc = "abort" => drv # <<>> /\ irq_ctx = <<>>

\* An interrupt for h2 arrived while the driver of h2 had it borrowed.
C16_Witness ==
    /\ pc = "abort"
    /\ drv = <<"h2">>
    /\ \E e \in irq_ctlr.table : e.handler = "h2" /\ e.irq \in irq_ctlr.enabled

\* C17: the initialised flag is false in a fresh ArchitectureState, becomes
\* true only at the end of initialise(), and no operation ever sets it back
\* to false.
C17_InitialisedIsMonotonic ==
    /\ ~initialised
    /\ [][/\ initialised => initialised'
          /\ initialised' # initialised => pc = "init_mark" /\ pc' = "init_return"]_vars

\* A second initialise() has run to its end on an initialised machine after a
\* raw I/O operation, timer registrations and a kb_leds call.
C17_Witness ==
    /\ initialised
    /\ inits = 2
    /\ pc = "init_return"
    /\ io_ops = 1
    /\ Len(timer_handlers) = 2
    /\ keyboard.leds = 0
    /\ mem[1] # 0

====
